---- MODULE Spec2Model ----
(***************************************************************************)
(* Model of the simi agent: the ReAct loop of Agent (agent.cpp), the tool  *)
(* dispatch of ToolRegistry (tool_registry.cpp) and the callbacks and      *)
(* atomic flags of Agent::Impl.                                            *)
(*                                                                         *)
(* Text is modelled as a sequence of chunks (records with a field lit),    *)
(* so that "appended to the answer" is Append and "ends with" is the last  *)
(* chunk.  An optional<string> is a sequence of strings: <<>> is nullopt.  *)
(*                                                                         *)
(* One thread drives process(); stop() may come from any other thread at   *)
(* any time.  process() is cut into steps at the points where it reads or  *)
(* writes stop_requested: its entry, the store of false, each evaluation   *)
(* of the loop condition together with the model call it guards, and each  *)
(* pass of the for loop together with the dispatch it guards.  reset() and *)
(* the registration of callbacks touch non-atomic members and belong to    *)
(* the owner of the agent, between two process() calls.                    *)
(*                                                                         *)
(* events, trace, notified, tool_notified, returned and entry_history      *)
(* observe the current process() call: what it did, the states it          *)
(* assigned, what its callbacks received, how it ended.                    *)
(***************************************************************************)
EXTENDS Integers, Sequences, FiniteSets, TLC

\* ------------------------------------------------------------------ bounds
MaxIterations == 2      \* largest configured Config::max_iterations
MaxErrors     == 2      \* largest configured Config::max_consecutive_errors
MaxCalls      == 2      \* most <tool_call> blocks in one model response
MaxWork       == 4      \* process() calls plus model calls in one run
MaxTokens     == 16     \* largest token budget of a history (the default of
                        \* Context is 16000; the texts of the model are short)
MaxRegister   == 3      \* most register_tool calls on one registry
MaxAppend     == 4      \* most add_message calls on one Context
MaxSaved      == 2      \* most messages of a history that is saved
MaxResponse   == 5      \* most tokens of a response given to the parser

\* ------------------------------------------------------------- environment
\* Two of the tools of register_defaults: one whose is_available is the
\* default of Tool (always true), one that overrides it with a check of the
\* platform.  CustomNames are tools given to AgentBuilder::with_tool.
RegisteredNames == {"list_directory", "screen_capture"}
CustomNames     == {"custom"}
CallNames       == {"list_directory"}

\* What Tool::execute of list_directory can do: return a success or a failure.
ToolBehaviours  == {"ok", "fail"}

\* The surroundings of a run, by the one way a tool call goes wrong in it:
\*   tool         the tool returns a failure outcome
\*   throw        the tool throws an exception derived from std::exception
\*   unknown      the model asks for a name that is not registered
\*   unavailable  the model asks for screen_capture where its check fails
\*   throw_other  a custom tool throws an object that is no std::exception
Environments == {"tool", "throw", "unknown", "unavailable", "throw_other"}

\* The names the model's responses ask for.
NamesOf(e) ==
    CASE e = "unknown"     -> {"list_directory", "nope"}
      [] e = "unavailable" -> {"list_directory", "screen_capture"}
      [] e = "throw_other" -> CustomNames
      [] OTHER             -> CallNames

\* What the tool of that name can do when it is dispatched.
BehavioursOf(e, name) ==
    CASE e = "tool"        -> ToolBehaviours
      [] e = "throw"       -> {"ok", "throw"}
      [] e = "unavailable" -> IF name = "screen_capture" THEN {"unavailable"}
                              ELSE {"ok"}
      [] e = "throw_other" -> {"ok", "throw_other"}
      [] OTHER             -> {"ok"}

\* The outcomes of one model call: a generated text, or a backend fault.
RECURSIVE SeqsUpTo(_, _)
SeqsUpTo(S, n) ==
    IF n = 0 THEN {<<>>}
    ELSE LET shorter == SeqsUpTo(S, n - 1)
         IN  shorter \cup {Append(s, x) : s \in shorter, x \in S}

ResponsesOf(e) ==
    {[text |-> IF b = <<>> THEN "answer" ELSE "calls", blocks |-> b] :
        b \in SeqsUpTo(NamesOf(e), MaxCalls)}

Lit(s) == [lit |-> s]

\* Message and its factories (images are not modelled: the loop only passes
\* them on to the backend).
system(content) ==
    [role |-> "System", content |-> <<Lit(content)>>,
     tool_name |-> <<>>, tool_call_id |-> <<>>]
user(content) ==
    [role |-> "User", content |-> <<Lit(content)>>,
     tool_name |-> <<>>, tool_call_id |-> <<>>]
assistant(content) ==
    [role |-> "Assistant", content |-> content,
     tool_name |-> <<>>, tool_call_id |-> <<>>]
tool_result(name, call_id, result) ==
    [role |-> "Tool", content |-> result,
     tool_name |-> <<name>>, tool_call_id |-> <<call_id>>]

value_or(opt, dflt) == IF opt = <<>> THEN dflt ELSE opt

\* ------------------------------------------------------------- tool objects
\* A Tool object is known by its name() and by which implementation it is.
\* OverrideTool is a custom tool that takes the name of a default tool; Null
\* is the empty unique_ptr.
Null              == [name |-> "", impl |-> "nullptr"]
ListDirectoryTool == [name |-> "list_directory", impl |-> "ListDirectoryTool"]
ScreenCaptureTool == [name |-> "screen_capture", impl |-> "ScreenCaptureTool"]
CustomTool        == [name |-> "custom", impl |-> "CustomTool"]
OverrideTool      == [name |-> "list_directory", impl |-> "OverrideTool"]

Tools == {ListDirectoryTool, ScreenCaptureTool, CustomTool, OverrideTool}

\* The tools of register_defaults, in its order.
DefaultTools == <<ListDirectoryTool, ScreenCaptureTool>>

\* The implementations whose is_available is more than "return true".
CheckedImpls == {"ScreenCaptureTool", "CustomTool", "OverrideTool"}
AllImpls     == {t.impl : t \in Tools}

VARIABLES
    config,             \* Agent::Impl::config (max_iterations, max_consecutive_errors)
    tools_,             \* ToolRegistry::tools_ : the map from name to tool
    registered,         \* the arguments of the register_tool calls so far
    available,          \* the implementations whose is_available holds now
    looked,             \* the last query of the registry and what it gave
    messages_,          \* Context::messages_
    max_tokens_,        \* Context::max_tokens_
    appended,           \* the messages given to Context::add_message so far
    ctx_last,           \* the last operation on the Context, and messages_ before it
    file,               \* the file Context::save wrote, as its characters
                        \* (<<>> while there is none)
    parse_input,        \* the text given to parse_tool_calls, as tokens
    calls,              \* what parse_tool_calls returned for it
    env,                \* the surroundings of the run, one of Environments
    engines,            \* Agent::Impl::vlm and llm: "none", or the state of the
                        \* backend's incremental cache, "fresh" or "dirty"
    prompt,             \* react_loop local: the prompt of the last model call
    history,            \* Agent::Impl::history
    state,              \* Agent::Impl::state (atomic)
    stop_requested,     \* Agent::Impl::stop_requested (atomic)
    state_callback,     \* TRUE iff a StateCallback is registered
    tool_callback,      \* TRUE iff a ToolCallback is registered
    pc,                 \* where the thread driving process() is
    iterations,         \* react_loop local
    consecutive_errors, \* react_loop local
    final_response,     \* react_loop local (ostringstream, as chunks)
    tool_calls,         \* react_loop local: parse_tool_calls(response)
    results,            \* react_loop local: (call, result) pairs of the batch
    idx,                \* position of the range-for over tool_calls
    returned,           \* how the last process() call ended, and its text
    entry_history,      \* the history when the current process() call was entered
    nprocess,           \* number of process() calls made so far
    model_calls,        \* number of model calls made so far, over all calls
    events,             \* what the current process() call did, in order
    trace,              \* the states assigned during the current process() call
    notified,           \* the states delivered to the state callback, in order
    tool_notified,      \* the (call, result) pairs delivered to the tool callback
    stream_callback,    \* TRUE iff a StreamCallback is registered
    emitted,            \* per model call of the current process() call: the
                        \* fragments the backend emitted and the response parsed
    streamed            \* the fragments delivered to the stream callback, in order

\* The registry as an object of its own, the Context and the parser's input:
\* what the reasoning loop leaves alone.
registry_vars == <<registered, available, looked>>
context_vars  == <<messages_, max_tokens_, appended, ctx_last, file>>
parser_vars   == <<parse_input, calls>>
others        == <<registry_vars, context_vars, parser_vars>>

vars == <<others, config, tools_, env, engines, prompt, history, state, stop_requested, state_callback,
          tool_callback, pc, iterations, consecutive_errors, final_response,
          tool_calls, results, idx, returned, entry_history, nprocess, model_calls, events,
          trace, notified, tool_notified, stream_callback, emitted, streamed>>

\* ------------------------------------------------------------ ToolRegistry
\* Tool::execute of a registered, available tool, by what the tool does.
\* Tools leave call_id empty (file_ops.cpp: return {"", ...}).
\* A custom tool may put a call_id of its own in its result, and may return
\* a failure without an error ("fail_silent").
own_call_id(name) == IF name \in CustomNames THEN <<"own_id">> ELSE <<>>

Tool_execute(name, behav) ==
    IF behav = "ok"
    THEN [call_id |-> own_call_id(name), success |-> TRUE, output |-> "entries",
          error |-> <<>>]
    ELSE IF behav = "fail_silent"
    THEN [call_id |-> own_call_id(name), success |-> FALSE, output |-> "",
          error |-> <<>>]
    ELSE [call_id |-> own_call_id(name), success |-> FALSE, output |-> "",
          error |-> <<"Directory not found: ", "x">>]

\* What the execute of a tool object can do.
RegistryBehaviours(tool) ==
    IF tool.impl \in {"CustomTool", "OverrideTool"}
    THEN {"ok", "fail", "fail_silent", "throw", "throw_other"}
    ELSE {"ok", "fail", "throw"}

\* register_tool on a registry whose map is given: a null pointer is ignored,
\* else the tool takes the entry of its name.
register_tool_first_wins(map, tool) ==
    IF tool = Null \/ tool.name \in DOMAIN map THEN map
    ELSE (tool.name :> tool) @@ map

register_tool(map, tool) ==
    IF tool = Null THEN map
    ELSE (tool.name :> tool) @@ map

RECURSIVE register_all(_, _)
register_all(map, tools) ==
    IF tools = <<>> THEN map
    ELSE register_all(register_tool(map, Head(tools)), Tail(tools))

\* The map of a default-constructed ToolRegistry.
NoTools == [n \in {} |-> Null]

register_defaults(map) == register_all(map, DefaultTools)

\* A registry that has a tool for every name.
get_tool_any(name) == TRUE

\* get_tool(name) != nullptr
get_tool(name) == name \in DOMAIN tools_

\* Dispatch without the test of is_available.
execute_unchecked(call, behav) ==
    IF ~get_tool(call.name)
    THEN [call_id |-> call.id, success |-> FALSE, output |-> "",
          error |-> <<"Unknown tool: ", call.name>>]
    ELSE IF behav = "throw"
    THEN [call_id |-> call.id, success |-> FALSE, output |-> "",
          error |-> <<"Tool execution failed: ", "what">>]
    ELSE [Tool_execute(call.name, behav) EXCEPT !.call_id = call.id]

execute_keeps_call_id(call, behav) ==
    IF ~get_tool(call.name)
    THEN [call_id |-> call.id, success |-> FALSE, output |-> "",
          error |-> <<"Unknown tool: ", call.name>>]
    ELSE IF behav = "unavailable"
    THEN [call_id |-> call.id, success |-> FALSE, output |-> "",
          error |-> <<"Tool not available: ", call.name>>]
    ELSE IF behav = "throw"
    THEN [call_id |-> call.id, success |-> FALSE, output |-> "",
          error |-> <<"Tool execution failed: ", "what">>]
    ELSE Tool_execute(call.name, behav)

execute(call, behav) ==
    IF ~get_tool(call.name)
    THEN [call_id |-> call.id, success |-> FALSE, output |-> "",
          error |-> <<"Unknown tool: ", call.name>>]
    ELSE IF behav = "unavailable"
    THEN [call_id |-> call.id, success |-> FALSE, output |-> "",
          error |-> <<"Tool not available: ", call.name>>]
    ELSE IF behav = "throw"
    THEN [call_id |-> call.id, success |-> FALSE, output |-> "",
          error |-> <<"Tool execution failed: ", "what">>]
    ELSE [Tool_execute(call.name, behav) EXCEPT !.call_id = call.id]

\* The order in which a range-for visits tools_, a std::map keyed by name:
\* the names in increasing order.
NameOrder == <<"custom", "list_directory", "screen_capture">>

\* The names of the map in the order of their first registration.
RECURSIVE FirstSeen(_)
FirstSeen(names) ==
    IF names = <<>> THEN <<>>
    ELSE LET earlier == FirstSeen(SubSeq(names, 1, Len(names) - 1))
             last    == names[Len(names)]
         IN  IF \E i \in 1..Len(earlier) : earlier[i] = last THEN earlier
             ELSE Append(earlier, last)

map_order_by_registration(map) ==
    SelectSeq(FirstSeen([i \in 1..Len(registered) |-> registered[i].name]),
              LAMBDA n : n \in DOMAIN map)

map_order(map) == SelectSeq(NameOrder, LAMBDA n : n \in DOMAIN map)

\* get_all_tools and format_tools_prompt on a registry with that map, the
\* implementations in avail being those whose is_available returns true.
get_all_tools(map, avail) ==
    LET order == map_order(map)
    IN  SelectSeq([i \in 1..Len(order) |-> map[order[i]]],
                  LAMBDA t : t.impl \in avail)

format_tools_prompt(map, avail) ==
    LET order == map_order(map)
        shown == SelectSeq([i \in 1..Len(order) |-> map[order[i]]],
                           LAMBDA t : t.impl \in avail)
    IN  <<Lit("## Available Tools\n\n")>>
            \o [i \in 1..Len(shown) |-> [lit |-> "### ", name |-> shown[i].name]]

\* Whether ToolRegistry::execute reaches tool->execute(call.arguments).
tool_ran(call, behav) == get_tool(call.name) /\ behav # "unavailable"

\* ------------------------------------------------------------------- Agent
\* A response text as the pieces tool_regex tells apart, white space between
\* them: "<tool_call>", "name: <word>", "arguments:", "</tool_call>", and
\* any other text.
Tok(t) == [t |-> t, name |-> ""]
NameField(n) == [t |-> "name", name |-> n]
TokenSet ==
    {Tok("open"), Tok("args"), Tok("text"), Tok("close")}
        \cup {NameField(n) : n \in RegisteredNames}

\* The text of a model response r that holds one complete block per name of
\* r.blocks, or plain text when it has none.
response_text(r) ==
    IF r.blocks = <<>> THEN <<Tok("text")>>
    ELSE [i \in 1..(4 * Len(r.blocks)) |->
            CASE i % 4 = 1 -> Tok("open")
              [] i % 4 = 2 -> NameField(r.blocks[(i + 2) \div 4])
              [] i % 4 = 3 -> Tok("args")
              [] OTHER     -> Tok("close")]

\* The first "</tool_call>" at or after from, 0 if there is none: where the
\* lazy [\s\S]*? of tool_regex stops.
first_close(response, from) ==
    LET at == {q \in from..Len(response) : response[q].t = "close"}
    IN  IF at = {} THEN 0 ELSE CHOOSE q \in at : \A o \in at : q <= o

\* Whether tool_regex matches with its "<tool_call>" at p.
match_at(response, p) ==
    /\ p + 2 <= Len(response)
    /\ response[p].t = "open"
    /\ response[p + 1].t = "name"
    /\ response[p + 2].t = "args"
    /\ first_close(response, p + 3) # 0

\* The matches std::sregex_iterator gives from p on: the leftmost match, then
\* the matches of what follows it.
RECURSIVE regex_matches(_, _)
regex_matches(response, p) ==
    IF p > Len(response) THEN <<>>
    ELSE IF match_at(response, p)
    THEN <<[start |-> p, name |-> response[p + 1].name,
            stop |-> first_close(response, p + 3)]>>
            \o regex_matches(response, first_close(response, p + 3) + 1)
    ELSE regex_matches(response, p + 1)

\* Agent::parse_tool_calls: one ToolCall per match, call_id counting from 0.
parse_tool_calls(response) ==
    LET found == regex_matches(response, 1)
    IN  [k \in 1..Len(found) |-> [id |-> <<"call_", k - 1>>, name |-> found[k].name]]

\* One "### name (id: ...)" section of format_tool_results.
format_one(pair) ==
    [lit    |-> "### ",
     name   |-> pair.call.name,
     id     |-> pair.call.id,
     status |-> IF pair.result.success THEN "Success" ELSE "Failed",
     error  |-> IF pair.result.success THEN <<>>
                ELSE value_or(pair.result.error, <<"Unknown error">>),
     output |-> pair.result.output]

\* The sections written last call first.
format_tool_results_reversed(rs) ==
    <<Lit("Tool Results:\n")>> \o
        [i \in 1..Len(rs) |-> format_one(rs[Len(rs) + 1 - i])]

\* The sections of the successful calls only.
format_tool_results_successes(rs) ==
    LET ok == SelectSeq(rs, LAMBDA pair : pair.result.success)
    IN  <<Lit("Tool Results:\n")>> \o [i \in 1..Len(ok) |-> format_one(ok[i])]

format_tool_results(rs) ==
    <<Lit("Tool Results:\n")>> \o [i \in 1..Len(rs) |-> format_one(rs[i])]

\* The loop condition with the comparison off by one.
\* The loop condition without its iteration count.
LoopGuard_uncounted == ~stop_requested

LoopGuard_off_by_one ==
    iterations <= config.max_iterations /\ ~stop_requested

\* The condition of the while loop of react_loop.
LoopGuard ==
    iterations < config.max_iterations /\ ~stop_requested

\* A counter of all the failures of the call, never reset.
count_errors_total(ce, success) ==
    IF success THEN ce ELSE ce + 1

\* consecutive_errors after one more dispatch with the given outcome.
count_errors(ce, success) ==
    IF success THEN 0 ELSE ce + 1

\* The test that gives up at the first failure.
cap_reached_any_failure(ce, success) ==
    ~success

\* The test after a dispatch, ce being the counter after it: the dispatch
\* failed and the failures in a row have reached the limit.
cap_reached(ce, success) ==
    ~success /\ ce >= config.max_consecutive_errors

\* The text react_loop returns, given the loop's final_response.
loop_result(iters, final) ==
    IF iters >= config.max_iterations
    THEN Append(final, Lit("\n[Reached maximum iterations]"))
    ELSE final

too_many_errors(final, result) ==
    final \o <<Lit("Too many consecutive errors. Stopping.\n"),
               [lit |-> "Last error: ",
                error |-> value_or(result.error, <<"Unknown error">>)]>>

\* build_prompt: the system prompt with the tool catalogue, the messages of
\* the history under their role tags (a System message is skipped), and the
\* open assistant turn.
role_tag(role) ==
    CASE role = "User"      -> "<|im_start|>user\n"
      [] role = "Assistant" -> "<|im_start|>assistant\n"
      [] role = "Tool"      -> "<|im_start|>tool\n"

render(msg) == [lit |-> role_tag(msg.role), content |-> msg.content]

build_prompt(messages) ==
    LET shown == SelectSeq(messages, LAMBDA m : m.role # "System")
    IN  <<[lit |-> "<|im_start|>system\n", tools |-> tools_]>>
            \o [i \in 1..Len(shown) |-> render(shown[i])]
            \o <<Lit("<|im_start|>assistant\n")>>

\* The backend react_loop generates with: the VLM when there is one, else
\* the LLM, else none ("No model loaded").
Backend ==
    IF engines.vlm # "none" THEN "vlm"
    ELSE IF engines.llm # "none" THEN "llm"
    ELSE "none"

\* VLMEngine::start_chat / LLMEngine::start_chat on an engine in state eng.
start_chat(eng) == IF eng = "none" THEN "none" ELSE "fresh"

\* What every model call does before its outcome is known: the prompt is
\* built from the history and the backend, if any, generates from it.
model_call ==
    /\ prompt' = build_prompt(history)
    /\ engines' = IF Backend = "none" THEN engines
                  ELSE [engines EXCEPT ![Backend] = "dirty"]

\* The generation of a response r by the backend, which emits its text piece
\* by piece: generate_stream hands each piece to the lambda of react_loop,
\* which appends it to oss and calls the stream callback; generate returns
\* the whole text.
generate(r) ==
    /\ emitted' = Append(emitted, [fragments |-> response_text(r),
                                   response  |-> response_text(r)])
    /\ streamed' = IF Backend = "vlm" /\ stream_callback THEN streamed \o response_text(r) ELSE streamed

\* Agent::Impl::set_state
set_state(new_state) ==
    /\ state' = new_state
    /\ notified' = IF state_callback THEN Append(notified, new_state) ELSE notified
    /\ trace' = Append(trace, new_state)

Event(kind, id, ok) == [e |-> kind, id |-> id, ok |-> ok]

NoLook == [op |-> "none", arg |-> <<>>, result |-> <<>>, tools |-> NoTools,
           avail |-> {}]

\* No Context and no text for the parser: the state of what the reasoning
\* loop does not use.
RegistryUnused == looked = NoLook

ContextUnused ==
    /\ messages_ = <<>>
    /\ max_tokens_ = MaxTokens
    /\ appended = <<>>
    /\ ctx_last = [op |-> "none", before |-> <<>>]
    /\ file = <<>>

ParserUnused ==
    /\ parse_input = <<>>
    /\ calls = <<>>

\* The members of Agent::Impl after the constructor, and the observations
\* of a run in which nothing has been called yet.
AgentConstructed ==
    /\ history = <<>>
    /\ prompt = <<>>
    /\ state = "Idle"
    /\ stop_requested = FALSE
    /\ state_callback = FALSE
    /\ tool_callback = FALSE
    /\ pc = "idle"
    /\ iterations = 0
    /\ consecutive_errors = 0
    /\ final_response = <<>>
    /\ tool_calls = <<>>
    /\ results = <<>>
    /\ idx = 1
    /\ returned = [status |-> "none", why |-> "", text |-> <<>>]
    /\ entry_history = <<>>
    /\ nprocess = 0
    /\ model_calls = 0
    /\ events = <<>>
    /\ trace = <<>>
    /\ notified = <<>>
    /\ tool_notified = <<>>
    /\ stream_callback = FALSE
    /\ emitted = <<>>
    /\ streamed = <<>>

Constructed == RegistryUnused /\ ContextUnused /\ ParserUnused /\ AgentConstructed

\* An agent built with a VLM (as main.cpp builds it) and the default tools,
\* under any iteration limit and the least or the greatest error limit.
Init ==
    /\ config \in [max_iterations : 1..MaxIterations,
                   max_consecutive_errors : {1, MaxErrors}]
    /\ registered = DefaultTools
    /\ tools_ = register_defaults(NoTools)
    /\ available = AllImpls
    /\ env = "tool"
    /\ engines = [vlm |-> "fresh", llm |-> "none"]
    /\ Constructed

\* An agent with two iterations and two errors in a row allowed, built with
\* a VLM, in one of the surroundings where a tool call goes wrong otherwise
\* than by a returned failure.
InitEnv ==
    /\ config = [max_iterations |-> 2, max_consecutive_errors |-> 2]
    /\ env \in Environments \ {"tool"}
    /\ engines = [vlm |-> "fresh", llm |-> "none"]
    /\ registered = IF env = "throw_other" THEN Append(DefaultTools, CustomTool)
                    ELSE DefaultTools
    /\ tools_ = register_all(NoTools, registered)
    /\ available = IF env = "unavailable" THEN AllImpls \ {"ScreenCaptureTool"}
                   ELSE AllImpls
    /\ Constructed

\* The same agent built with another choice of engines: the LLM only, both
\* engines, or none.
InitEngines ==
    /\ config = [max_iterations |-> 2, max_consecutive_errors |-> 2]
    /\ env = "tool"
    /\ engines \in {[vlm |-> "none",  llm |-> "fresh"],
                    [vlm |-> "fresh", llm |-> "fresh"],
                    [vlm |-> "none",  llm |-> "none"]}
    /\ registered = DefaultTools
    /\ tools_ = register_defaults(NoTools)
    /\ available = AllImpls
    /\ Constructed

\* The entry of process(): nothing of its body has run yet.
enter_process ==
    /\ pc = "idle"
    /\ nprocess + model_calls + 1 + config.max_iterations <= MaxWork
    /\ nprocess' = nprocess + 1
    /\ entry_history' = history
    /\ pc' = "called"
    /\ events' = <<>>
    /\ trace' = <<>>
    /\ notified' = <<>>
    /\ tool_notified' = <<>>
    /\ emitted' = <<>>
    /\ streamed' = <<>>
    /\ returned' = [status |-> "none", why |-> "", text |-> <<>>]
    /\ UNCHANGED <<others, config, tools_, env, engines, prompt, history, state, stop_requested, iterations,
                   consecutive_errors, final_response, tool_calls, results, idx,
                   model_calls>>

\* A caller enters process() directly.
process_call ==
    /\ enter_process
    /\ UNCHANGED <<state_callback, tool_callback, stream_callback>>

\* A caller enters process_stream(), which installs its on_token, on_tool and
\* on_state arguments (all given, as main.cpp does, or all left at nullptr)
\* and calls process().
process_stream ==
    /\ enter_process
    /\ \E given \in BOOLEAN :
          /\ stream_callback' = given
          /\ tool_callback' = given
          /\ state_callback' = given

\* The entry of process() without the store to stop_requested.
process_begin_keeps_stop ==
    /\ pc = "called"
    /\ set_state("Thinking")
    /\ history' = Append(history, user("list files"))
    /\ iterations' = 0
    /\ consecutive_errors' = 0
    /\ final_response' = <<>>
    /\ tool_calls' = <<>>
    /\ results' = <<>>
    /\ idx' = 1
    /\ prompt' = <<>>
    /\ pc' = "loop"
    /\ UNCHANGED <<stop_requested, nprocess, entry_history, others, config, tools_, env, engines, state_callback, stream_callback,
                   tool_callback, returned, model_calls, events, tool_notified, emitted, streamed>>

\* process() up to the first evaluation of the loop condition; the locals of
\* react_loop come into being.
process_begin ==
    /\ pc = "called"
    /\ stop_requested' = FALSE
    /\ set_state("Thinking")
    /\ history' = Append(history, user("list files"))
    /\ iterations' = 0
    /\ consecutive_errors' = 0
    /\ final_response' = <<>>
    /\ tool_calls' = <<>>
    /\ results' = <<>>
    /\ idx' = 1
    /\ prompt' = <<>>
    /\ pc' = "loop"
    /\ UNCHANGED <<nprocess, entry_history, others, config, tools_, env, engines, state_callback, stream_callback,
                   tool_callback, returned, model_calls, events, tool_notified, emitted, streamed>>

\* The end of process() on a history that drops its oldest message to make
\* room for the assistant message.
Return_evicting(iters, final, why) ==
    LET response == loop_result(iters, final)
    IN  /\ history' = Append(Tail(history), assistant(response))
        /\ set_state("Done")
        /\ returned' = [status |-> "returned", why |-> why, text |-> response]
        /\ pc' = "idle"

\* The end of process() with an assistant message that lacks the marker the
\* returned text has.
Return_unmarked(iters, final, why) ==
    LET response == loop_result(iters, final)
    IN  /\ history' = Append(history, assistant(final))
        /\ set_state("Done")
        /\ returned' = [status |-> "returned", why |-> why, text |-> response]
        /\ pc' = "idle"

\* The end of react_loop and of process(): the iteration-limit marker, the
\* assistant message, the state Done and the return.
Return(iters, final, why) ==
    LET response == loop_result(iters, final)
    IN  /\ history' = Append(history, assistant(response))
        /\ set_state("Done")
        /\ returned' = [status |-> "returned", why |-> why, text |-> response]
        /\ pc' = "idle"

\* One iteration whose model call fails and is tried again by the loop.
generate_fault_retry ==
    /\ pc = "loop"
    /\ LoopGuard
    /\ model_call
    /\ iterations' = iterations + 1
    /\ model_calls' = model_calls + 1
    /\ events' = Append(events, Event("model", <<"fault">>, FALSE))
    /\ UNCHANGED <<nprocess, entry_history, others, config, tools_, env, history, state,
                   stop_requested, state_callback, stream_callback, tool_callback, pc,
                   consecutive_errors, final_response, tool_calls, results, idx,
                   returned, trace, notified, tool_notified, emitted, streamed>>

\* The loop condition is false: the iteration count, else the stop flag.
react_loop_exit ==
    /\ pc = "loop"
    /\ ~LoopGuard
    /\ Return(iterations, final_response,
              IF iterations >= config.max_iterations THEN "iterations" ELSE "stop")
    /\ UNCHANGED <<nprocess, entry_history, others, config, tools_, env, engines, prompt, stop_requested, state_callback, stream_callback, tool_callback,
                   iterations, consecutive_errors, final_response, tool_calls,
                   results, idx, model_calls, events, tool_notified, emitted, streamed>>

\* One iteration up to the for loop: the model call fails.
generate_fault ==
    /\ pc = "loop"
    /\ LoopGuard
    /\ model_call
    /\ iterations' = iterations + 1
    /\ model_calls' = model_calls + 1
    /\ events' = Append(events, Event("model", <<"fault">>, FALSE))
    /\ returned' = [status |-> "threw", why |-> "fault", text |-> <<>>]
    /\ pc' = "idle"
    /\ UNCHANGED <<nprocess, entry_history, others, config, tools_, env, history, state, stop_requested, state_callback, stream_callback,
                   tool_callback, consecutive_errors, final_response, tool_calls,
                   results, idx, trace, notified, tool_notified, emitted, streamed>>

\* The iteration without its break: the answer is kept and the loop goes on.
generate_answer_no_break ==
    /\ pc = "loop"
    /\ LoopGuard
    /\ Backend # "none"
    /\ model_call
    /\ \E r \in ResponsesOf(env) :
        /\ parse_tool_calls(response_text(r)) = <<>>
        /\ generate(r)
        /\ iterations' = iterations + 1
        /\ model_calls' = model_calls + 1
        /\ events' = Append(events, Event("model", <<"answer">>, TRUE))
        /\ final_response' = Append(final_response, Lit(r.text))
    /\ UNCHANGED <<nprocess, entry_history, others, config, tools_, env, history, state,
                   stop_requested, state_callback, stream_callback, tool_callback, pc,
                   consecutive_errors, tool_calls, results, idx, returned,
                   trace, notified, tool_notified>>

\* One iteration whose response has no tool call: the answer, then the return.
generate_answer ==
    /\ pc = "loop"
    /\ LoopGuard
    /\ Backend # "none"
    /\ model_call
    /\ \E r \in ResponsesOf(env) :
        /\ parse_tool_calls(response_text(r)) = <<>>
        /\ generate(r)
        /\ iterations' = iterations + 1
        /\ model_calls' = model_calls + 1
        /\ events' = Append(events, Event("model", <<"answer">>, TRUE))
        /\ final_response' = Append(final_response, Lit(r.text))
        /\ Return(iterations', final_response', "answer")
    /\ UNCHANGED <<nprocess, entry_history, others, config, tools_, env, stop_requested, state_callback, stream_callback, tool_callback,
                   consecutive_errors, tool_calls, results, idx, tool_notified>>

\* One iteration whose response has tool calls, up to the for loop.
generate_calls ==
    /\ pc = "loop"
    /\ LoopGuard
    /\ Backend # "none"
    /\ model_call
    /\ \E r \in ResponsesOf(env) :
        /\ parse_tool_calls(response_text(r)) # <<>>
        /\ generate(r)
        /\ iterations' = iterations + 1
        /\ model_calls' = model_calls + 1
        /\ events' = Append(events, Event("model", <<"calls">>, TRUE))
        /\ tool_calls' = parse_tool_calls(response_text(r))
        /\ set_state("CallingTool")
        /\ results' = <<>>
        /\ idx' = 1
        /\ pc' = "tools"
    /\ UNCHANGED <<nprocess, entry_history, others, config, tools_, env, history, stop_requested, state_callback, stream_callback,
                   tool_callback, consecutive_errors, final_response, returned,
                   tool_notified>>

\* After the for loop, with one Tool message for each call of the batch.
end_batch_per_call(rs) ==
    /\ history' = history \o
          [i \in 1..Len(rs) |->
              tool_result(rs[i].call.name, rs[i].call.id,
                          format_tool_results(<<rs[i]>>))]
    /\ set_state("Thinking")
    /\ pc' = "loop"

\* After the for loop, without the return to the state Thinking.
end_batch_stays_calling(rs) ==
    /\ history' = Append(history, tool_result("tools", "", format_tool_results(rs)))
    /\ UNCHANGED <<state, notified, trace>>
    /\ pc' = "loop"

\* After the for loop: the batch's Tool message and the state Thinking.
end_batch(rs) ==
    /\ history' = Append(history, tool_result("tools", "", format_tool_results(rs)))
    /\ set_state("Thinking")
    /\ pc' = "loop"

\* One pass of the for loop that dispatches tool_calls[idx].
dispatch ==
    /\ pc = "tools"
    /\ ~stop_requested
    /\ \E behav \in BehavioursOf(env, tool_calls[idx].name) \ {"throw_other"} :
        LET call   == tool_calls[idx]
            result == execute(call, behav)
            ce     == count_errors(consecutive_errors, result.success)
            capped == cap_reached(ce, result.success)
        IN  /\ results' = Append(results, [call |-> call, result |-> result])
            /\ tool_notified' =
                  IF tool_callback
                  THEN Append(tool_notified, [call |-> call, result |-> result])
                  ELSE tool_notified
            /\ consecutive_errors' = ce
            /\ events' = events \o (IF tool_ran(call, behav)
                                    THEN <<Event("exec", call.id, TRUE)>>
                                    ELSE IF get_tool(call.name)
                                    THEN <<Event("unavailable", call.id, FALSE)>>
                                    ELSE <<>>)
                                \o <<Event("dispatch", call.id, result.success)>>
                                \o (IF capped THEN <<Event("cap", call.id, FALSE)>>
                                    ELSE <<>>)
            /\ final_response' =
                  IF capped THEN too_many_errors(final_response, result)
                  ELSE final_response
            /\ IF capped \/ idx = Len(tool_calls)
               THEN /\ end_batch(results')
                    /\ idx' = idx
               ELSE /\ idx' = idx + 1
                    /\ UNCHANGED <<history, state, notified, trace, pc>>
    /\ UNCHANGED <<nprocess, entry_history, others, config, tools_, env, engines, prompt, stop_requested, state_callback, stream_callback, tool_callback,
                   iterations, tool_calls, returned, model_calls, emitted, streamed>>

\* One pass of the for loop in which the tool throws what ToolRegistry::execute
\* does not catch: the object leaves execute, react_loop and process().
dispatch_fault ==
    /\ pc = "tools"
    /\ ~stop_requested
    /\ tool_ran(tool_calls[idx], "throw_other")
    /\ "throw_other" \in BehavioursOf(env, tool_calls[idx].name)
    /\ events' = events \o <<Event("exec", tool_calls[idx].id, TRUE),
                              Event("escape", tool_calls[idx].id, FALSE)>>
    /\ returned' = [status |-> "threw", why |-> "tool", text |-> <<>>]
    /\ pc' = "idle"
    /\ UNCHANGED <<nprocess, entry_history, others, config, tools_, env, engines, prompt,
                   history, state, stop_requested, state_callback, stream_callback, tool_callback,
                   iterations, consecutive_errors, final_response, tool_calls,
                   results, idx, model_calls, trace, notified, tool_notified, emitted, streamed>>

\* One pass of the for loop that finds stop_requested set and breaks.
dispatch_stopped ==
    /\ pc = "tools"
    /\ stop_requested
    /\ end_batch(results)
    /\ UNCHANGED <<nprocess, entry_history, others, config, tools_, env, engines, prompt, stop_requested, state_callback, stream_callback, tool_callback,
                   iterations, consecutive_errors, final_response, tool_calls,
                   results, idx, returned, model_calls, events, tool_notified, emitted, streamed>>

StopLogged == \E i \in 1..Len(events) : events[i].e = "stop"

\* Agent::stop, from any thread at any time.
stop ==
    /\ ~stop_requested \/ (pc # "idle" /\ ~StopLogged)
    /\ stop_requested' = TRUE
    /\ events' = IF pc # "idle" THEN Append(events, Event("stop", <<>>, TRUE))
                 ELSE events
    /\ UNCHANGED <<nprocess, entry_history, others, config, tools_, env, engines, prompt, history, state, state_callback, stream_callback, tool_callback,
                   pc, iterations, consecutive_errors, final_response, tool_calls,
                   results, idx, returned, model_calls, trace, notified, tool_notified, emitted, streamed>>

\* Agent::reset, by the owner of the agent between process() calls.
reset ==
    /\ pc = "idle"
    /\ history' = <<>>
    /\ state' = "Idle"
    /\ stop_requested' = FALSE
    /\ engines' = [engines EXCEPT !.vlm = start_chat(@)]
    /\ UNCHANGED <<nprocess, entry_history, others, config, tools_, env, prompt, state_callback, stream_callback, tool_callback, pc, iterations,
                   consecutive_errors, final_response, tool_calls, results, idx,
                   returned, model_calls, events, trace, notified, tool_notified, emitted, streamed>>

Next ==
    \/ process_call
    \/ process_stream
    \/ process_begin
    \/ react_loop_exit
    \/ generate_fault
    \/ generate_answer
    \/ generate_calls
    \/ dispatch
    \/ dispatch_stopped
    \/ stop
    \/ reset

Spec == Init /\ [][Next]_vars

\* The steps of the thread that runs process(): once entered, it keeps
\* running until process() returns or throws.
ProcessStep ==
    \/ process_begin
    \/ react_loop_exit
    \/ generate_fault
    \/ generate_answer
    \/ generate_calls
    \/ dispatch
    \/ dispatch_stopped

\* The calls of process() on an agent without callbacks, with stop requests
\* at any time, the thread of process() being scheduled again and again.
NextFair ==
    \/ process_call
    \/ ProcessStep
    \/ stop

\* An agent built with a VLM and the default tools, under any iteration
\* limit and the largest error limit.
InitFair ==
    /\ config \in [max_iterations : 1..MaxIterations,
                   max_consecutive_errors : {MaxErrors}]
    /\ registered = DefaultTools
    /\ tools_ = register_defaults(NoTools)
    /\ available = AllImpls
    /\ env = "tool"
    /\ engines = [vlm |-> "fresh", llm |-> "none"]
    /\ Constructed

SpecFair == InitFair /\ [][NextFair]_vars /\ WF_vars(ProcessStep)

agent_vars == <<config, env, engines, prompt, history, state, stop_requested,
                state_callback, tool_callback, pc, iterations,
                consecutive_errors, final_response, tool_calls, results, idx,
                returned, entry_history, nprocess, model_calls, events, trace,
                notified, tool_notified, stream_callback, emitted, streamed>>

\* --------------------------------------------------- the parser on its own

\* Any response text, not parsed yet.
InitParser ==
    /\ config = [max_iterations |-> 1, max_consecutive_errors |-> 1]
    /\ env = "tool"
    /\ engines = [vlm |-> "none", llm |-> "none"]
    /\ registered = DefaultTools
    /\ tools_ = register_defaults(NoTools)
    /\ available = AllImpls
    /\ RegistryUnused
    /\ ContextUnused
    /\ AgentConstructed
    /\ parse_input \in SeqsUpTo(TokenSet, MaxResponse)
    /\ calls = <<>>

\* Agent::parse_tool_calls on that response text.
Parser_parse_tool_calls ==
    /\ calls = <<>>
    /\ calls' = <<parse_tool_calls(parse_input)>>
    /\ UNCHANGED <<agent_vars, tools_, registry_vars, context_vars, parse_input>>

NextParser == Parser_parse_tool_calls

SpecParser == InitParser /\ [][NextParser]_vars

\* ------------------------------------------------- the registry on its own
\* A default-constructed ToolRegistry, every tool available.
InitRegistry ==
    /\ config = [max_iterations |-> 1, max_consecutive_errors |-> 1]
    /\ env = "tool"
    /\ engines = [vlm |-> "none", llm |-> "none"]
    /\ registered = <<>>
    /\ tools_ = NoTools
    /\ available = AllImpls
    /\ Constructed

\* The names a caller asks the registry for.
QueryNames == {"list_directory", "screen_capture", "custom", "nope"}

Look(op, arg, result) ==
    [op |-> op, arg |-> arg, result |-> result, tools |-> tools_,
     avail |-> available]

\* ToolRegistry::register_tool
Registry_register_tool ==
    /\ Len(registered) < MaxRegister
    /\ \E tool \in Tools \cup {Null} :
          /\ tools_' = register_tool(tools_, tool)
          /\ registered' = Append(registered, tool)
    /\ looked' = NoLook
    /\ UNCHANGED <<agent_vars, available, context_vars, parser_vars>>

\* The platform changes under a tool: its is_available gives the other answer.
availability_changes ==
    /\ \E i \in CheckedImpls :
          available' = IF i \in available THEN available \ {i}
                       ELSE available \cup {i}
    /\ looked' = NoLook
    /\ UNCHANGED <<agent_vars, tools_, registered, context_vars, parser_vars>>

\* ToolRegistry::get_tool
Registry_get_tool ==
    /\ \E name \in QueryNames :
          looked' = Look("get_tool", <<name>>,
                         IF get_tool(name) THEN <<tools_[name]>> ELSE <<>>)
    /\ UNCHANGED <<agent_vars, tools_, registered, available, context_vars,
                   parser_vars>>

\* ToolRegistry::get_all_tools
Registry_get_all_tools ==
    /\ looked' = Look("get_all_tools", <<>>, get_all_tools(tools_, available))
    /\ UNCHANGED <<agent_vars, tools_, registered, available, context_vars,
                   parser_vars>>

\* ToolRegistry::format_tools_prompt
Registry_format_tools_prompt ==
    /\ looked' = Look("format_tools_prompt", <<>>,
                      format_tools_prompt(tools_, available))
    /\ UNCHANGED <<agent_vars, tools_, registered, available, context_vars,
                   parser_vars>>

\* What is_available and execute of the tool of that name do at a dispatch.
DispatchBehaviours(name) ==
    IF ~get_tool(name) THEN {"ok"}
    ELSE IF tools_[name].impl \notin available THEN {"unavailable"}
    ELSE RegistryBehaviours(tools_[name])

\* ToolRegistry::execute that returns an outcome.
Registry_execute ==
    /\ \E name \in QueryNames :
       \E behav \in DispatchBehaviours(name) \ {"throw_other"} :
          LET call == [id |-> <<"call_", 0>>, name |-> name]
          IN  looked' = Look("execute", <<call, behav>>, <<execute(call, behav)>>)
    /\ UNCHANGED <<agent_vars, tools_, registered, available, context_vars,
                   parser_vars>>

\* ToolRegistry::execute left by what the tool throws.
Registry_execute_escapes ==
    /\ \E name \in QueryNames :
          /\ "throw_other" \in DispatchBehaviours(name)
          /\ looked' = Look("escaped", <<[id |-> <<"call_", 0>>, name |-> name],
                                         "throw_other">>, <<>>)
    /\ UNCHANGED <<agent_vars, tools_, registered, available, context_vars,
                   parser_vars>>

NextRegistry ==
    \/ Registry_register_tool
    \/ availability_changes
    \/ Registry_get_tool
    \/ Registry_get_all_tools
    \/ Registry_format_tools_prompt
    \/ Registry_execute
    \/ Registry_execute_escapes

SpecRegistry == InitRegistry /\ [][NextRegistry]_vars

\* The same agent where tools may also throw what the registry lets through.
NextEnv ==
    \/ Next
    \/ dispatch_fault

SpecEnv == InitEnv /\ [][NextEnv]_vars

\* The agent under each choice of engines.
SpecEngines == InitEngines /\ [][Next]_vars

\* ------------------------------------------------- observations on a call
IterationMarker == Lit("\n[Reached maximum iterations]")

IsModel(ev)    == ev.e = "model"
IsDispatch(ev) == ev.e = "dispatch"
IsWork(ev)     == ev.e \in {"model", "dispatch"}

ModelEvents    == SelectSeq(events, IsModel)
DispatchEvents == SelectSeq(events, IsDispatch)

\* The error cap was reached during the current process() call.
CapHit == \E i \in 1..Len(events) : events[i].e = "cap"

Returned == pc = "idle" /\ returned.status = "returned"

\* The number of failures at the end of a sequence of dispatch events.
RECURSIVE TrailingFailures(_)
TrailingFailures(ds) ==
    IF ds = <<>> \/ ds[Len(ds)].ok THEN 0
    ELSE 1 + TrailingFailures(SubSeq(ds, 1, Len(ds) - 1))

\* The dispatch events among the first i events of the call.
DispatchesUpTo(i) == SelectSeq(SubSeq(events, 1, i), IsDispatch)

\* The messages the current process() call has appended, and whether the
\* history still holds them (no reset() since the call).
CallHistory == SubSeq(history, Len(entry_history) + 1, Len(history))

HistoryIntact == pc # "idle" \/ (returned.status # "none" /\ history # <<>>)

IsToolTurn(m) == m.role = "Tool"

LastIsTool == history # <<>> /\ IsToolTurn(history[Len(history)])

\* The batches of the current call whose for loop has been left normally.
IsBatch(ev) == ev.e = "model" /\ ev.id = <<"calls">>

BatchesEnded ==
    Len(SelectSeq(events, IsBatch))
        - (IF pc = "tools" \/ (pc = "idle" /\ returned.why = "tool") THEN 1 ELSE 0)

\* The position in events of the last model call, and whether a dispatch
\* after it brought the failures in a row to max_consecutive_errors.
BatchStart ==
    LET at == {i \in 1..Len(events) : IsModel(events[i])}
    IN  IF at = {} THEN 0 ELSE CHOOSE i \in at : \A j \in at : j <= i

BatchCapReached ==
    \E i \in BatchStart + 1 .. Len(events) :
        /\ IsDispatch(events[i])
        /\ TrailingFailures(DispatchesUpTo(i)) >= config.max_consecutive_errors

\* The "###" sections of the Tool messages among msgs, in order.
RECURSIVE Sections(_)
Sections(msgs) ==
    IF msgs = <<>> THEN <<>>
    ELSE (IF IsToolTurn(Head(msgs)) THEN Tail(Head(msgs).content) ELSE <<>>)
             \o Sections(Tail(msgs))

\* The dispatches of the current call whose batch has got its Tool message.
RecordedDispatches ==
    SubSeq(DispatchEvents, 1,
           Len(DispatchEvents)
               - (IF pc = "tools" \/ (pc = "idle" /\ returned.why = "tool")
                  THEN Len(results) ELSE 0))

IsPrefix(s, t) == Len(s) <= Len(t) /\ SubSeq(t, 1, Len(s)) = s

\* Whether, in the batch under way or just ended, the registry ran the
\* execute of the tool of the call with that id, or found it unavailable.
Ran(id) ==
    \E i \in BatchStart + 1 .. Len(events) :
        events[i].e = "exec" /\ events[i].id = id

FoundUnavailable(id) ==
    \E i \in BatchStart + 1 .. Len(events) :
        events[i].e = "unavailable" /\ events[i].id = id

\* std::string::length of the texts of the model.
StrLen(str) ==
    CASE str = ""                        -> 0
      [] str = "x"                       -> 1
      [] str = "yes"                     -> 3
      [] str \in {"nope", "what"}        -> 4
      [] str \in {"answer", "custom"}    -> 6
      [] str = "entries"                 -> 7
      [] str = "be brief"                -> 8
      [] str = "list files"              -> 10
      [] str = "Last error: "            -> 12
      [] str = "Unknown error"           -> 13
      [] str \in {"list_directory", "screen_capture", "Tool Results:\n",
                  "Unknown tool: "}      -> 14
      [] str = "Tool not available: "    -> 20
      [] str = "Directory not found: "   -> 21
      [] str = "Tool execution failed: " -> 23
      [] str = "\n[Reached maximum iterations]"            -> 29
      [] str = "Too many consecutive errors. Stopping.\n"  -> 39

RECURSIVE SumLen(_)
SumLen(strs) == IF strs = <<>> THEN 0 ELSE StrLen(Head(strs)) + SumLen(Tail(strs))

\* The length of one chunk of a text: a section of format_tool_results
\* ("\n### name (id: call_n)\n", the status line, the error or output lines),
\* the "Last error: " line, or a literal.
chunk_length(c) ==
    IF "status" \in DOMAIN c
    THEN 5 + StrLen(c.name) + 6 + 6 + 2
           + (IF c.status = "Success"
              THEN 16 + 8 + StrLen(c.output) + 1
              ELSE 15 + 7 + SumLen(c.error) + 1
                      + (IF c.output = "" THEN 0 ELSE 8 + StrLen(c.output) + 1))
    ELSE IF "error" \in DOMAIN c
    THEN StrLen(c.lit) + SumLen(c.error)
    ELSE StrLen(c.lit)

RECURSIVE content_length(_)
content_length(content) ==
    IF content = <<>> THEN 0
    ELSE chunk_length(Head(content)) + content_length(Tail(content))

\* Context::estimate_tokens on a sequence of messages.
RECURSIVE estimate_tokens(_)
estimate_tokens(msgs) ==
    IF msgs = <<>> THEN 0
    ELSE (content_length(Head(msgs).content) \div 4) + estimate_tokens(Tail(msgs))

\* -------------------------------------------------- the Context on its own
\* messages_.erase(it) with it at position i.
erase(msgs, i) == SubSeq(msgs, 1, i - 1) \o SubSeq(msgs, i + 1, Len(msgs))

\* Context::trim_if_needed, with one pass where the code loops.
trim_if_needed_once(msgs, budget) ==
    IF estimate_tokens(msgs) > budget /\ Len(msgs) > 2
    THEN erase(msgs, IF msgs[1].role = "System" THEN 2 ELSE 1)
    ELSE msgs

\* Context::trim_if_needed that erases the turn before the newest one.
RECURSIVE trim_if_needed_newest_first(_, _)
trim_if_needed_newest_first(msgs, budget) ==
    IF estimate_tokens(msgs) > budget /\ Len(msgs) > 2
    THEN trim_if_needed_newest_first(erase(msgs, Len(msgs) - 1), budget)
    ELSE msgs

\* Context::trim_if_needed on messages_ = msgs and max_tokens_ = budget.
RECURSIVE trim_if_needed(_, _)
trim_if_needed(msgs, budget) ==
    IF estimate_tokens(msgs) > budget /\ Len(msgs) > 2
    THEN trim_if_needed(erase(msgs, IF msgs[1].role = "System" THEN 2 ELSE 1),
                        budget)
    ELSE msgs

\* Context::clear that keeps nothing.
clear_all(msgs) == <<>>

\* Context::clear: erase(remove_if(role != System)).
clear(msgs) == SelectSeq(msgs, LAMBDA m : m.role = "System")

\* The messages a caller adds, and the budgets it sets.
ContextMessages ==
    {system("be brief"), user("list files"), assistant(<<Lit("answer")>>),
     assistant(<<Lit("yes")>>),
     tool_result("tools", "", <<Lit("Tool Results:\n")>>)}

\* Context::add_message
Context_add_message ==
    /\ Len(appended) < MaxAppend
    /\ \E msg \in ContextMessages :
          LET m == ("n" :> (Len(appended) + 1)) @@ msg
          IN  /\ messages_' = trim_if_needed(Append(messages_, m), max_tokens_)
              /\ appended' = Append(appended, m)
    /\ ctx_last' = [op |-> "add_message", before |-> messages_]
    /\ UNCHANGED <<agent_vars, tools_, registry_vars, parser_vars, max_tokens_, file>>

\* Context::clear
Context_clear ==
    /\ messages_' = clear(messages_)
    /\ ctx_last' = [op |-> "clear", before |-> messages_]
    /\ UNCHANGED <<agent_vars, tools_, registry_vars, parser_vars, max_tokens_,
                   appended, file>>

\* Context::set_max_tokens
Context_set_max_tokens ==
    /\ \E max \in {0, 2, 4, MaxTokens} : max_tokens_' = max
    /\ ctx_last' = [op |-> "set_max_tokens", before |-> messages_]
    /\ UNCHANGED <<agent_vars, tools_, registry_vars, parser_vars, messages_,
                   appended, file>>

NextContext ==
    \/ Context_add_message
    \/ Context_clear
    \/ Context_set_max_tokens

\* A default-constructed Context.
InitContext ==
    /\ config = [max_iterations |-> 1, max_consecutive_errors |-> 1]
    /\ env = "tool"
    /\ engines = [vlm |-> "none", llm |-> "none"]
    /\ registered = DefaultTools
    /\ tools_ = register_defaults(NoTools)
    /\ available = AllImpls
    /\ Constructed

SpecContext == InitContext /\ [][NextContext]_vars

\* ------------------------------------------- Context::save and load
\* The characters of the decimal digits.
Digits == <<"0", "1", "2", "3", "4", "5", "6", "7", "8", "9">>

\* operator<< of a non-negative integer: its decimal digits.
RECURSIVE to_chars(_)
to_chars(n) ==
    IF n < 10 THEN <<Digits[n + 1]>>
    ELSE Append(to_chars(n \div 10), Digits[(n % 10) + 1])

\* static_cast<Role>(role_int): Role { System, User, Assistant, Tool }.
role_of(i) ==
    CASE i = 0 -> "System"
      [] i = 1 -> "User"
      [] i = 2 -> "Assistant"
      [] i = 3 -> "Tool"
      [] OTHER -> "Invalid"

\* Context::save: the characters of the file, three lines for each message:
\* static_cast<int>(msg.role), msg.content.length() and msg.content.
RECURSIVE save(_)
save(msgs) ==
    IF msgs = <<>> THEN <<>>
    ELSE LET msg      == Head(msgs)
             role_int == CASE msg.role = "System"    -> 0
                           [] msg.role = "User"      -> 1
                           [] msg.role = "Assistant" -> 2
                           [] msg.role = "Tool"      -> 3
         IN  to_chars(role_int) \o <<"\n">>
                 \o to_chars(Len(msg.content)) \o <<"\n">>
                 \o msg.content \o <<"\n">>
                 \o save(Tail(msgs))

\* The first position from p on that holds no white space (Len + 1 if none).
RECURSIVE ws_end(_, _)
ws_end(f, p) ==
    IF p > Len(f) \/ f[p] \notin {" ", "\n"} THEN p ELSE ws_end(f, p + 1)

\* The first position from p on that holds no digit (Len + 1 if none).
RECURSIVE digits_end(_, _)
digits_end(f, p) ==
    IF p > Len(f) \/ (\A d \in 1..10 : Digits[d] # f[p]) THEN p ELSE digits_end(f, p + 1)

\* The number written in the digits f[p..e-1].
RECURSIVE number(_, _, _)
number(f, p, e) ==
    IF e <= p THEN 0
    ELSE 10 * number(f, p, e - 1) + (CHOOSE d \in 0..9 : Digits[d + 1] = f[e - 1])

\* operator>> into an integer with the stream at position p: white space is
\* skipped, then the longest run of digits is read; it fails without a digit.
extract(f, p) ==
    LET q == ws_end(f, p)
        e == digits_end(f, q)
    IN  [ok |-> e > q, value |-> number(f, q, e), next |-> e]

\* The std::string of content_len NUL characters after file.read from start.
read_content(f, start, len) ==
    LET got == SubSeq(f, start, IF start + len - 1 <= Len(f)
                                 THEN start + len - 1 ELSE Len(f))
    IN  got \o [i \in 1..(len - Len(got)) |-> "NUL"]

\* The loop of Context::load that skips the white space before the content
\* instead of ignoring one character.
RECURSIVE load_from_skipping_space(_, _)
load_from_skipping_space(f, p) ==
    LET r == extract(f, p)
        l == extract(f, r.next)
    IN  IF ~r.ok \/ ~l.ok THEN <<>>
        ELSE LET start == ws_end(f, l.next)
                 msg   == [role    |-> role_of(r.value),
                           content |-> read_content(f, start, l.value)]
             IN  IF start + l.value - 1 > Len(f) THEN <<msg>>
                 ELSE <<msg>> \o load_from_skipping_space(f, start + l.value + 1)

\* The while loop of Context::load with the stream at position p: the two
\* numbers, ignore(), content_len characters, ignore(); a read that falls
\* short still pushes its message and ends the loop.
RECURSIVE load_from(_, _)
load_from(f, p) ==
    LET r == extract(f, p)
        l == extract(f, r.next)
    IN  IF ~r.ok \/ ~l.ok THEN <<>>
        ELSE LET start == l.next + 1
                 msg   == [role    |-> role_of(r.value),
                           content |-> read_content(f, start, l.value)]
             IN  IF start + l.value - 1 > Len(f) THEN <<msg>>
                 ELSE <<msg>> \o load_from(f, start + l.value + 1)

\* Context::load: messages_ after it.
load(f) == load_from(f, 1)

\* The messages of the histories that are saved.
SavedMessages ==
    [role    : {"System", "User", "Assistant", "Tool"},
     content : {<<>>, <<"a">>, <<"0">>, <<"\n", "2">>, <<"1", "\n">>,
                <<"3", " ", "a">>,
                <<"a", "a", "a", "a", "a", "\n", "1", "2", " ", "a">>}]

\* A Context that holds any history, nothing saved yet.
InitPersist ==
    /\ config = [max_iterations |-> 1, max_consecutive_errors |-> 1]
    /\ env = "tool"
    /\ engines = [vlm |-> "none", llm |-> "none"]
    /\ registered = DefaultTools
    /\ tools_ = register_defaults(NoTools)
    /\ available = AllImpls
    /\ RegistryUnused
    /\ ParserUnused
    /\ AgentConstructed
    /\ messages_ \in SeqsUpTo(SavedMessages, MaxSaved)
    /\ max_tokens_ = MaxTokens
    /\ appended = <<>>
    /\ ctx_last = [op |-> "none", before |-> <<>>]
    /\ file = <<>>

\* Context::save
Context_save ==
    /\ ctx_last.op = "none"
    /\ file' = <<save(messages_)>>
    /\ ctx_last' = [op |-> "save", before |-> messages_]
    /\ UNCHANGED <<agent_vars, tools_, registry_vars, parser_vars, messages_,
                   max_tokens_, appended>>

\* Context::load of the file saved.
Context_load ==
    /\ ctx_last.op = "save"
    /\ file # <<>>
    /\ messages_' = load(file[1])
    /\ ctx_last' = [op |-> "load", before |-> messages_]
    /\ UNCHANGED <<agent_vars, tools_, registry_vars, parser_vars, max_tokens_,
                   appended, file>>

NextPersist ==
    \/ Context_save
    \/ Context_load

SpecPersist == InitPersist /\ [][NextPersist]_vars

\* ------------------------------------------------------------------ claims

\* C1: once the consecutive failed dispatches of a process() call reach
\* max_consecutive_errors, that call makes no further model call and
\* dispatches no further tool call.
C1_NoWorkAfterErrorCap ==
    \A i \in 1..Len(events) : \A j \in 1..Len(events) :
        (i < j /\ events[i].e = "cap") => ~IsWork(events[j])

\* C2: a process() call that returns after the iteration cap was reached
\* returns a text whose last part is the iteration-limit marker, and one that
\* returns after the error cap was reached (and not the iteration cap) returns
\* a text whose last part is the too-many-errors diagnostic with the last error.
C2_AbnormalExitEndsWithMarker ==
    Returned =>
        /\ returned.why = "iterations" =>
              /\ returned.text # <<>>
              /\ returned.text[Len(returned.text)] = IterationMarker
        /\ (CapHit /\ returned.why # "iterations") =>
              /\ returned.text # <<>>
              /\ returned.text[Len(returned.text)].lit = "Last error: "

\* C3: a process() call whose loop ended on a response without tool calls
\* returns a text that does not contain the iteration-limit marker.
C3_NoMarkerOnNaturalExit ==
    (Returned /\ returned.why = "answer") =>
        \A i \in 1..Len(returned.text) : returned.text[i] # IterationMarker

\* C4: with no stop request, no response without tool calls and the error cap
\* not reached, a process() call that returns has made exactly max_iterations
\* model calls and its text ends with the iteration-limit marker.
C4_ExactlyMaxIterations ==
    (Returned /\ ~StopLogged /\ ~CapHit /\ returned.why # "answer") =>
        /\ Len(ModelEvents) = config.max_iterations
        /\ returned.text # <<>>
        /\ returned.text[Len(returned.text)] = IterationMarker

C4_Witness ==
    /\ Returned /\ ~StopLogged /\ ~CapHit /\ returned.why # "answer"
    /\ config.max_iterations = 2
    /\ Len(ModelEvents) = 2
    /\ Len(DispatchEvents) >= 2

\* C5: when the first model response of a process() call has no tool call,
\* the call makes exactly one model call, dispatches nothing, appends no Tool
\* message and its state goes Thinking, Done without CallingTool.
C5_PlainAnswerEndsCall ==
    (ModelEvents # <<>> /\ ModelEvents[1].id = <<"answer">>) =>
        /\ Len(ModelEvents) = 1
        /\ DispatchEvents = <<>>
        /\ trace = <<"Thinking", "Done">>
        /\ state \in {"Done", "Idle"}
        /\ Returned
        /\ \/ history = <<>>
           \/ /\ Len(history) = Len(entry_history) + 2
              /\ \A i \in Len(entry_history) + 1 .. Len(history) :
                    history[i].role # "Tool"

C5_Witness ==
    /\ ModelEvents # <<>> /\ ModelEvents[1].id = <<"answer">>
    /\ Returned
    /\ Len(history) = Len(entry_history) + 2
    /\ state = "Done"

\* C6: after a stop() issued while a process() call is in flight, that call
\* starts no model call and no tool dispatch.
C6_NoWorkAfterStop ==
    \A i \in 1..Len(events) : \A j \in 1..Len(events) :
        (i < j /\ events[i].e = "stop") => ~IsWork(events[j])

\* C7: inside a process() call the consecutive-error counter is the number
\* of failed dispatches since the last successful dispatch of that call, and
\* the error cap is reached exactly at the failed dispatches before which
\* max_consecutive_errors - 1 failures or more had occurred in a row.
C7_CounterIsTrailingFailures ==
    /\ pc \in {"loop", "tools"} =>
          consecutive_errors = TrailingFailures(DispatchEvents)
    /\ \A i \in 1..Len(events) :
          /\ events[i].e = "cap" =>
                TrailingFailures(DispatchesUpTo(i)) >= config.max_consecutive_errors
          /\ (IsDispatch(events[i])
              /\ TrailingFailures(DispatchesUpTo(i)) >= config.max_consecutive_errors) =>
                (i < Len(events) /\ events[i + 1].e = "cap")

C7_Witness ==
    /\ pc \in {"loop", "tools"}
    /\ ~CapHit
    /\ Len(DispatchEvents) = 3
    /\ ~DispatchEvents[1].ok /\ DispatchEvents[2].ok /\ ~DispatchEvents[3].ok
    /\ consecutive_errors = 1

\* C8: a process() call in which the error cap was reached enters the state
\* Error before it ends in the state Done.
C8_ErrorStateBeforeDone ==
    (Returned /\ CapHit) => \E i \in 1..Len(trace) : trace[i] = "Error"

\* C9: with a state callback registered, every change of the state is
\* delivered to the callback, as the new state, when it happens.
C9_EveryStateChangeNotified ==
    [][(state_callback /\ state' # state) => notified' = Append(notified, state')]_vars

\* C10: the calls of one response are dispatched in the order of the
\* response, the tool callback receives them in that order, and the Tool
\* message of the batch lists their outcomes in that order.
C10_BatchOrder ==
    /\ pc = "tools" => Len(results) = idx - 1
    /\ pc \in {"tools", "loop"} =>
          /\ Len(results) <= Len(tool_calls)
          /\ \A i \in 1..Len(results) :
                /\ results[i].call = tool_calls[i]
                /\ results[i].result.call_id = tool_calls[i].id
          /\ Len(DispatchEvents) >= Len(results)
          /\ \A i \in 1..Len(results) :
                DispatchEvents[Len(DispatchEvents) - Len(results) + i].id
                    = tool_calls[i].id
          /\ tool_callback =>
                /\ Len(tool_notified) >= Len(results)
                /\ \A i \in 1..Len(results) :
                      tool_notified[Len(tool_notified) - Len(results) + i]
                          = results[i]
    /\ (pc = "loop" /\ history[Len(history)].role = "Tool") =>
          LET content == history[Len(history)].content
          IN  /\ Len(content) = Len(results) + 1
              /\ \A i \in 1..Len(results) :
                    /\ content[i + 1].id = tool_calls[i].id
                    /\ content[i + 1].name = tool_calls[i].name
                    /\ content[i + 1].status =
                          (IF results[i].result.success THEN "Success" ELSE "Failed")

C10_Witness ==
    /\ pc = "loop"
    /\ history[Len(history)].role = "Tool"
    /\ Len(history[Len(history)].content) = 3
    /\ Len(results) = 2
    /\ tool_callback
    /\ Len(tool_notified) >= 2
    /\ results[1].result.success # results[2].result.success

\* C11: a batch of k >= 1 tool calls appends exactly one Tool message to the
\* history, whatever k is; after it the state is Thinking; the call then ends
\* only by a stop request, the error cap or the iteration cap, and the model
\* call that follows the batch is given a prompt that holds that Tool message.
C11_OneToolTurnPerBatch ==
    HistoryIntact =>
        /\ Len(SelectSeq(CallHistory, IsToolTurn)) = BatchesEnded
        /\ (pc = "loop" /\ LastIsTool) => state = "Thinking"
        /\ pc = "tools" => prompt = build_prompt(history)
        /\ (pc # "loop" /\ ModelEvents # <<>>
            /\ returned.why \notin {"stop", "iterations", "tool"}) =>
              \A i \in 1..Len(CallHistory) :
                  IsToolTurn(CallHistory[i]) =>
                      \E j \in 1..Len(prompt) : prompt[j] = render(CallHistory[i])
        /\ (Returned /\ ModelEvents # <<>>
            /\ IsBatch(ModelEvents[Len(ModelEvents)])) =>
              (StopLogged \/ CapHit \/ iterations >= config.max_iterations)

C11_Witness ==
    /\ pc = "tools"
    /\ Len(ModelEvents) = 2
    /\ Len(SelectSeq(CallHistory, IsToolTurn)) = 1
    /\ Len(history[Len(history)].content) = 3
    /\ ~StopLogged /\ ~CapHit
    /\ \E j \in 1..Len(prompt) : prompt[j] = render(history[Len(history)])

\* C12 as stated: with no stop request, every call of a response is
\* dispatched, whatever the outcomes of the earlier calls of the batch.
C12_SiblingsAllDispatched ==
    (pc = "loop" /\ tool_calls # <<>> /\ ~StopLogged) =>
        Len(results) = Len(tool_calls)

\* C12 amended: with no stop request, every call of a response is dispatched
\* unless a failure of the batch brings the failures in a row to
\* max_consecutive_errors; a failure below that limit aborts nothing.
C12_SiblingsDispatchedBelowCap ==
    (pc = "loop" /\ tool_calls # <<>> /\ ~StopLogged /\ ~BatchCapReached) =>
        Len(results) = Len(tool_calls)

C12_Witness ==
    /\ pc = "loop" /\ ~StopLogged /\ ~BatchCapReached
    /\ Len(tool_calls) = 2
    /\ Len(results) = 2
    /\ ~results[1].result.success

C14_BackendFaultPropagates ==
    /\ \A i \in 1..Len(events) :
          (IsModel(events[i]) /\ ~events[i].ok) =>
              /\ i = Len(events)
              /\ pc = "idle"
              /\ returned = [status |-> "threw", why |-> "fault", text |-> <<>>]
              /\ state \in {"Thinking", "Idle"}
              /\ HistoryIntact => history[Len(history)].role # "Assistant"
    /\ (Backend = "none" /\ ModelEvents # <<>>) =>
          (Len(ModelEvents) = 1 /\ ~ModelEvents[1].ok)

C14_Witness ==
    /\ pc = "idle"
    /\ returned.status = "threw" /\ returned.why = "fault"
    /\ Len(ModelEvents) = 2
    /\ DispatchEvents # <<>>
    /\ state = "Thinking"

\* C15: while no reset() intervenes, the history of a process() call keeps
\* the history at its entry as a prefix, and a call that has returned has
\* appended to it.
C15_HistoryOnlyExtended ==
    (pc # "idle" \/ history # <<>>) =>
        /\ IsPrefix(entry_history, history)
        /\ Returned => Len(history) >= Len(entry_history) + 2

C15_Witness ==
    /\ Returned
    /\ nprocess = 2
    /\ entry_history # <<>>
    /\ Len(history) >= Len(entry_history) + 2
    /\ IsPrefix(entry_history, history)

\* C16: a reset() of an agent with turns in its history leaves the history
\* empty, the stop flag clear, the state Idle, and the cache of the backend
\* the loop generates with fresh.
C16_ResetNotifiesBackend ==
    [][(pc = "idle" /\ pc' = "idle" /\ history # <<>> /\ history' = <<>>) =>
          /\ ~stop_requested'
          /\ state' = "Idle"
          /\ Backend # "none" => engines'[Backend] = "fresh"]_vars

\* C17: the history the loop renders its prompt from is either within the
\* token budget or holds at most two messages.
C17_HistoryWithinBudget ==
    estimate_tokens(history) <= MaxTokens \/ Len(history) <= 2

\* C18: the dispatch of a call whose name is not registered gives a failure
\* with the error "Unknown tool: <name>" and the id of the call, and runs
\* the execute of no tool.
C18_UnknownToolOutcome ==
    pc \in {"tools", "loop"} =>
        \A i \in 1..Len(results) :
            results[i].call.name \notin DOMAIN tools_ =>
                /\ results[i].result =
                      [call_id |-> results[i].call.id, success |-> FALSE,
                       output |-> "",
                       error |-> <<"Unknown tool: ", results[i].call.name>>]
                /\ ~Ran(results[i].call.id)

C18_Witness ==
    /\ pc = "loop"
    /\ Len(results) = 2
    /\ results[1].call.name = "nope"
    /\ results[1].result.error = <<"Unknown tool: ", "nope">>
    /\ results[1].result.call_id = <<"call_", 0>>
    /\ results[2].result.success
    /\ Ran(<<"call_", 1>>) /\ ~Ran(<<"call_", 0>>)

\* C19: the dispatch of a call that names a registered tool whose
\* is_available is false at that moment gives a failure with the error
\* "Tool not available: <name>" and the id of the call, and does not run the
\* tool's execute.
C19_UnavailableToolOutcome ==
    pc \in {"tools", "loop"} =>
        \A i \in 1..Len(results) :
            FoundUnavailable(results[i].call.id) =>
                /\ results[i].call.name \in DOMAIN tools_
                /\ results[i].result =
                      [call_id |-> results[i].call.id, success |-> FALSE,
                       output |-> "",
                       error |-> <<"Tool not available: ", results[i].call.name>>]
                /\ ~Ran(results[i].call.id)

C19_Witness ==
    /\ pc = "loop"
    /\ Len(results) = 2
    /\ results[1].result.success
    /\ results[2].call.name = "screen_capture"
    /\ FoundUnavailable(<<"call_", 1>>)
    /\ results[2].result.error = <<"Tool not available: ", "screen_capture">>
    /\ Ran(<<"call_", 0>>) /\ ~Ran(<<"call_", 1>>)

\* C20: every execute of a tool that the registry starts comes back to the
\* loop as an outcome of the dispatch, and a process() call ends with a
\* failure only through a failed model call.
C20_DispatchNeverPropagates ==
    /\ \A i \in 1..Len(events) :
          events[i].e = "exec" =>
              /\ i < Len(events)
              /\ IsDispatch(events[i + 1])
              /\ events[i + 1].id = events[i].id
    /\ returned.status = "threw" => returned.why = "fault"

\* ---------------------------------------------------------------- C21
\* The outcome ToolRegistry::execute returned last, and the request and the
\* tool behaviour it was called with.
Executed == looked.op = "execute"
LookedCall == looked.arg[1]
LookedBehaviour == looked.arg[2]
LookedResult == looked.result[1]

\* C21: every outcome execute returns, for an unknown name, an unavailable
\* tool, a tool that ran and a tool that threw, carries the id of the request
\* it was called with, whatever call_id the tool put in its own result.
C21_CallIdIsRequestId ==
    Executed => LookedResult.call_id = LookedCall.id

\* A registered custom tool ran and put a call_id of its own in its result.
C21_Witness ==
    /\ Executed
    /\ LookedCall.name \in DOMAIN looked.tools
    /\ LookedBehaviour = "ok"
    /\ Tool_execute(LookedCall.name, "ok").call_id = <<"own_id">>
    /\ Tool_execute(LookedCall.name, "ok").call_id # LookedCall.id

\* ---------------------------------------------------------------- C22
\* C22: every outcome with success = false that execute returns has an
\* error that is present and not empty, whatever tool is registered.
C22_FailureHasError ==
    (Executed /\ ~LookedResult.success) => LookedResult.error # <<>>

\* ---------------------------------------------------------------- C23
\* The tool registered last under that name, if any (a null tool is ignored).
LastRegistered(name) ==
    LET at == {i \in 1..Len(registered) :
                  registered[i] # Null /\ registered[i].name = name}
    IN  IF at = {} THEN <<>>
        ELSE <<registered[CHOOSE i \in at : \A j \in at : j <= i]>>

\* C23: after any sequence of register_tool calls the registry holds, under
\* each name, the tool registered last under it and nothing under a name
\* never registered; get_tool returns that tool and execute runs it.
C23_LastRegistrationWins ==
    /\ \A name \in QueryNames : (IF get_tool(name) THEN <<tools_[name]>> ELSE <<>>) = LastRegistered(name)
    /\ looked.op = "get_tool" => looked.result = LastRegistered(looked.arg[1])
    /\ (Executed /\ LastRegistered(LookedCall.name) # <<>>) =>
          LET tool == LastRegistered(LookedCall.name)[1]
          IN  IF tool.impl \in looked.avail
              THEN LookedBehaviour \in RegistryBehaviours(tool)
              ELSE LookedBehaviour = "unavailable"

\* list_directory was registered twice with different tools, another name in
\* between or after, and a lookup returned the second tool.
C23_Witness ==
    /\ \E i, j \in 1..Len(registered) :
          /\ i < j
          /\ registered[i] = ListDirectoryTool
          /\ registered[j] = OverrideTool
    /\ \E k \in 1..Len(registered) : registered[k] = CustomTool
    /\ looked.op = "get_tool"
    /\ looked.arg = <<"list_directory">>
    /\ looked.result = <<OverrideTool>>

\* ---------------------------------------------------------------- C24
\* The position of a name in the order of the names.
Rank(name) == CHOOSE i \in 1..Len(NameOrder) : NameOrder[i] = name

\* The names a listing or a catalogue shows, in its order.
Listed ==
    IF looked.op = "get_all_tools"
    THEN [i \in 1..Len(looked.result) |-> looked.result[i].name]
    ELSE [i \in 1..(Len(looked.result) - 1) |-> looked.result[i + 1].name]

IsListing == looked.op \in {"get_all_tools", "format_tools_prompt"}

BlockEnd(response, p) ==
    LET later == {q \in (p + 1)..Len(response) : response[q].t = "open"}
    IN  IF later = {} THEN Len(response)
        ELSE (CHOOSE q \in later : \A o \in later : q <= o) - 1

\* The block that starts at p has its name field, its arguments field and
\* its closing delimiter.
WellFormed(response, p) ==
    /\ response[p].t = "open"
    /\ p + 3 <= BlockEnd(response, p)
    /\ response[p + 1].t = "name"
    /\ response[p + 2].t = "args"
    /\ \E q \in (p + 3)..BlockEnd(response, p) : response[q].t = "close"

\* Where the well-formed blocks of a response start, in document order.
WellFormedStarts(response) ==
    SelectSeq([i \in 1..Len(response) |-> i],
              LAMBDA p : WellFormed(response, p))

Parsed == calls # <<>>

\* C25: for a response with N well-formed blocks parse_tool_calls returns N
\* requests, in document order, with the ids call_0 .. call_{N-1}.
C25_OneRequestPerWellFormedBlock ==
    Parsed =>
        LET blocks == WellFormedStarts(parse_input)
        IN  /\ Len(calls[1]) = Len(blocks)
            /\ \A k \in 1..Len(calls[1]) :
                  /\ calls[1][k].id = <<"call_", k - 1>>
                  /\ k <= Len(blocks) =>
                        calls[1][k].name = parse_input[blocks[k] + 1].name

\* C26: no request comes from a block without its closing delimiter or
\* without a name field, and every well-formed block gives its request.
C26_UnterminatedBlockSkipped ==
    Parsed =>
        LET found == regex_matches(parse_input, 1)
        IN  /\ \A k \in 1..Len(found) : \E q \in (found[k].start + 1)..BlockEnd(parse_input, found[k].start) :
                    parse_input[q].t = "close"
            /\ [k \in 1..Len(found) |-> found[k].start] =
                  WellFormedStarts(parse_input)

\* ---------------------------------------------------------------- C27
\* The pinned turn of a history: its first System turn (0 if it has none).
Pinned(msgs) ==
    LET at == {i \in 1..Len(msgs) : msgs[i].role = "System"}
    IN  IF at = {} THEN 0 ELSE CHOOSE i \in at : \A j \in at : i <= j

\* The history without its oldest turn that is not the pinned one.
EvictOldest(msgs) ==
    LET at == {i \in 1..Len(msgs) : i # Pinned(msgs)}
    IN  IF at = {} THEN msgs
        ELSE erase(msgs, CHOOSE i \in at : \A j \in at : i <= j)

RECURSIVE Evictions(_, _)
Evictions(msgs, k) ==
    IF k = 0 THEN msgs ELSE EvictOldest(Evictions(msgs, k - 1))

WithinLimits(msgs) == estimate_tokens(msgs) <= max_tokens_ \/ Len(msgs) <= 2

Added == ctx_last.op = "add_message"

\* The history right after the push_back of the last add_message.
Pushed == Append(ctx_last.before, appended[Len(appended)])

C28_SystemTurnsNeverEvicted ==
    Added =>
        \A i \in 1..Len(Pushed) :
            Pushed[i].role = "System" =>
                \E j \in 1..Len(messages_) : messages_[j] = Pushed[i]

\* ---------------------------------------------------------------- C29
\* C29: the history is a subsequence of the turns added, in the order they
\* were added, and an add_message evicts oldest first: every turn it removed
\* was added before every turn it kept, the pinned turn aside.
C29_OrderKeptOldestEvictedFirst ==
    /\ \A i \in 1..Len(messages_) :
          /\ messages_[i].n \in 1..Len(appended)
          /\ messages_[i] = appended[messages_[i].n]
    /\ \A i, j \in 1..Len(messages_) : i < j => messages_[i].n < messages_[j].n
    /\ Added =>
          \A r \in 1..Len(Pushed) :
              (\A j \in 1..Len(messages_) : messages_[j] # Pushed[r]) =>
                  \A t \in 1..Len(messages_) :
                      \/ Pinned(Pushed) # 0 /\ messages_[t] = Pushed[Pinned(Pushed)]
                      \/ Pushed[r].n < messages_[t].n

\* An add_message evicted a turn while it kept the pinned turn, which is
\* older, and a turn added after the evicted one.
C29_Witness ==
    /\ Added
    /\ Len(messages_) < Len(Pushed)
    /\ Len(messages_) >= 3
    /\ Pinned(messages_) = 1
    /\ \E r \in 1..Len(Pushed) :
          /\ \A j \in 1..Len(messages_) : messages_[j] # Pushed[r]
          /\ messages_[1].n < Pushed[r].n
          /\ Pushed[r].n < messages_[2].n

\* ---------------------------------------------------------------- C30
Cleared == ctx_last.op = "clear"

\* C30: after clear the history holds the System turns it held before, in
\* their order, and no other turn; a second clear changes nothing.
C30_ClearKeepsOnlySystem ==
    Cleared =>
        /\ \A i \in 1..Len(messages_) : messages_[i].role = "System"
        /\ \A i \in 1..Len(ctx_last.before) :
              ctx_last.before[i].role = "System" =>
                  \E j \in 1..Len(messages_) : messages_[j] = ctx_last.before[i]
        /\ \A i, j \in 1..Len(messages_) : i < j => messages_[i].n < messages_[j].n
        /\ clear(messages_) = messages_

\* A clear removed turns of other roles from between two System turns.
C30_Witness ==
    /\ Cleared
    /\ Len(messages_) = 2
    /\ Len(ctx_last.before) > 2
    /\ ctx_last.before[1].role = "System"
    /\ ctx_last.before[2].role # "System"

\* ---------------------------------------------------------------- C31
\* The fragments the backend emitted during the current process() call, in
\* the order of their emission.
RECURSIVE Emission(_)
Emission(gens) ==
    IF gens = <<>> THEN <<>>
    ELSE Emission(SubSeq(gens, 1, Len(gens) - 1)) \o gens[Len(gens)].fragments

\* C31: with a stream callback registered, every fragment the backend emits
\* during a model call is delivered to the callback once and in the order of
\* emission, whichever backend generates, and the response parsed for tool
\* calls is the concatenation of the fragments of that model call.
C31_FragmentsDeliveredInOrder ==
    stream_callback =>
        /\ streamed = Emission(emitted)
        /\ \A i \in 1..Len(emitted) : emitted[i].response = emitted[i].fragments

\* ---------------------------------------------------------------- C32
\* C32: in one process() call the number of tool calls dispatched never
\* exceeds max_iterations, however many calls a response holds.
C32_DispatchesWithinMaxIterations ==
    Len(DispatchEvents) <= config.max_iterations

\* ---------------------------------------------------------------- C33
InFlight == pc # "idle"

\* C33: every process() call ends, whatever the model responds and the tools
\* return; it makes at most max_iterations model calls, and when it returns
\* the last state it has set is Done.
C33_ProcessTerminates ==
    /\ [](Len(ModelEvents) <= config.max_iterations)
    /\ [](iterations <= config.max_iterations)
    /\ [](Returned => trace[Len(trace)] = "Done")
    /\ (InFlight ~> ~InFlight)

\* A call that used all its iterations on tool calls has returned.
C33_Witness ==
    /\ Returned
    /\ config.max_iterations = MaxIterations
    /\ iterations = MaxIterations
    /\ Len(ModelEvents) = MaxIterations
    /\ Len(DispatchEvents) >= MaxIterations
    /\ state = "Done"

\* ---------------------------------------------------------------- C35
\* The last process() call has ended, by a return or by a fault that left it.
Ended == pc = "idle" /\ returned.status # "none"

\* Agent::is_busy
is_busy == state \in {"Thinking", "CallingTool"}

\* C35: when no process() call is in flight, after a return or after a fault
\* that left process(), is_busy() is false.
C35_NotBusyWhenIdle ==
    Ended => ~is_busy

\* ---------------------------------------------------------------- C36
\* C36: a process() call that ends with a fault leaves the history as it was
\* when the call was entered.
C36_FaultRestoresHistory ==
    (Ended /\ returned.status = "threw" /\ history # <<>>) =>
        history = entry_history

\* ---------------------------------------------------------------- C37
\* C37: a stop flag set before a process() call was entered does not cancel
\* that call: unless stop() is called during the call, the flag is clear
\* while the loop runs, and the call makes its first model call and does not
\* end by the stop flag.
C37_StaleStopNeverCancels ==
    /\ (pc \in {"loop", "tools"} /\ ~StopLogged) => ~stop_requested
    /\ (Returned /\ ~StopLogged) => (returned.why # "stop" /\ ModelEvents # <<>>)

\* The call before was cancelled by stop() before its first model call (its
\* Assistant turn is empty), which left the flag set at the entry of this
\* call; this call was not stopped, made a model call and returned.
C37_Witness ==
    /\ Returned
    /\ ~StopLogged
    /\ nprocess >= 2
    /\ entry_history # <<>>
    /\ entry_history[Len(entry_history)].role = "Assistant"
    /\ entry_history[Len(entry_history)].content = <<>>
    /\ ModelEvents # <<>>
    /\ returned.why = "answer"

\* ---------------------------------------------------------------- C38
\* The iterations of the current call whose response had tool calls.
Batches == SelectSeq(events, IsBatch)

\* C38: a process() call that returns has appended to the history one User
\* turn, then one Tool turn for each iteration that had tool calls, then
\* one Assistant turn whose text is the text returned, markers included.
C38_TurnsOfOneCall ==
    Returned =>
        LET turns == CallHistory
            n     == Len(turns)
        IN  /\ IsPrefix(entry_history, history)
            /\ n = Len(Batches) + 2
            /\ turns[1].role = "User"
            /\ \A i \in 2..(n - 1) : turns[i].role = "Tool"
            /\ turns[n].role = "Assistant"
            /\ turns[n].content = returned.text

\* A call that had tool calls in each of its iterations returned at the
\* iteration limit, its text ending with the marker.
C38_Witness ==
    /\ Returned
    /\ returned.why = "iterations"
    /\ Len(Batches) = MaxIterations
    /\ Len(CallHistory) = MaxIterations + 2
    /\ returned.text # <<>>
    /\ returned.text[Len(returned.text)] = IterationMarker
    /\ history[Len(history)].content = returned.text

\* ---------------------------------------------------------------- C39
\* C39: within a process() call every model call is made in the state
\* Thinking and every tool dispatch in the state CallingTool.
C39_StateAtWork ==
    [][/\ Len(ModelEvents') > Len(ModelEvents) => state = "Thinking"
       /\ Len(DispatchEvents') > Len(DispatchEvents) => state = "CallingTool"]_vars

\* The second model call of a process() call, made after a batch of tool
\* calls, asked for tool calls again.
C39_Witness ==
    /\ pc = "tools"
    /\ state = "CallingTool"
    /\ Len(ModelEvents) = 2
    /\ Len(DispatchEvents) >= 1
    /\ trace = <<"Thinking", "CallingTool", "Thinking", "CallingTool">>

\* ---------------------------------------------------------------- C40
\* The sum of the content lengths of a history.
RECURSIVE total_length(_)
total_length(msgs) ==
    IF msgs = <<>> THEN 0
    ELSE content_length(Head(msgs).content) + total_length(Tail(msgs))

\* C40: when more than two turns remain after an add_message, the content
\* lengths of the retained turns sum to at most 4 * max_tokens_ + 3, however
\* many turns were added.
C40_LengthBoundedByBudget ==
    (Added /\ Len(messages_) > 2) =>
        total_length(messages_) <= 4 * max_tokens_ + 3

\* ---------------------------------------------------------------- C34
\* C34: a history saved with Context::save and loaded back with
\* Context::load has the same turns in the same order, with equal roles and
\* equal contents, empty contents and contents with newlines, spaces or
\* digits included.
C34_SaveLoadRoundTrip ==
    ctx_last.op = "load" =>
        /\ Len(messages_) = Len(ctx_last.before)
        /\ \A i \in 1..Len(messages_) :
              /\ messages_[i].role = ctx_last.before[i].role
              /\ messages_[i].content = ctx_last.before[i].content

\* A history of two turns was loaded back, the first with an empty content,
\* the second with a content that begins with a newline and a digit.
C34_Witness ==
    /\ ctx_last.op = "load"
    /\ Len(ctx_last.before) = 2
    /\ ctx_last.before[1].content = <<>>
    /\ ctx_last.before[2].content = <<"\n", "2">>
    /\ Len(messages_) = 2

====
